---- MODULE Spec2Model ----
(***************************************************************************)
(* A model of monitor.py: one run of main() loads state.json, performs a   *)
(* conditional GET of TARGET_URL, normalises the page text, compares its   *)
(* SHA-256 with the stored one, sends a ntfy notification carrying a       *)
(* truncated unified diff when they differ, and saves state.json.          *)
(*                                                                         *)
(* Values.  A Python str is a sequence of one-character strings (a few     *)
(* fixed literals and decimal numbers are kept as one token).  An optional *)
(* value (str | None, int | None) is None == <<>> or Some(x) == <<x>>.     *)
(***************************************************************************)
EXTENDS Integers, Sequences, FiniteSets, TLC

\* ------------------------------------------------------------------ bounds
\* time.time() takes the values 1..MaxClock and never decreases.
MaxClock == 2
\* The functions taken alone are given every text of at most this length.
MaxRawLen == 3
\* Templates given to build_message alone are made of at most this many pieces.
MaxPieces == 2
\* Number of lines of the one long page (more than both truncation limits).
LongLines == 401

\* ------------------------------------------------------- program constants
\* diff_lines[:60]
DiffMaxLines == 60
\* content.splitlines()[:400]
ExcerptMaxLines == 400
\* difflib.unified_diff(..., n=5)
DiffContext == 5
\* difflib.SequenceMatcher autojunk: active when len(b) >= 200, an element is
\* "popular" when it occurs more than len(b) // 100 + 1 times.
AutojunkMinLen == 200
AutojunkDivisor == 100

\* ------------------------------------------------------------ basic values
None == <<>>
Some(x) == <<x>>
\* A test for None only.
IsNotNone(o) == o # None

\* Python truthiness of an optional string: None and "" are falsy.
Truthy(o) == o # None /\ o[1] # <<>>

Min2(x, y) == IF x <= y THEN x ELSE y
Max2(x, y) == IF x >= y THEN x ELSE y

\* F(v) with v evaluated once and bound to the parameter of F (a local
\* variable holding a value).
At(v, F(_)) == CHOOSE r \in {F(x) : x \in {v}} : TRUE

\* The characters of the modelled pages; " " and "\n" are the whitespace.
Alphabet == {"a", "b", " ", "\n"}
IsWs(c) == c \in {" ", "\n"}

\* ------------------------------------------------------------- str methods
RECURSIVE LStripFrom(_, _)
LStripFrom(s, i) ==
    IF i > Len(s) \/ ~IsWs(s[i]) THEN i ELSE LStripFrom(s, i + 1)

RECURSIVE RStripFrom(_, _)
RStripFrom(s, i) ==
    IF i < 1 \/ ~IsWs(s[i]) THEN i ELSE RStripFrom(s, i - 1)

\* str.strip()
Strip(s) == SubSeq(s, LStripFrom(s, 1), RStripFrom(s, Len(s)))

\* Whether s[i..] starts with whitespace that reaches a "\n" (all whitespace
\* up to and including it).
RECURSIVE NewlineAhead(_, _)
NewlineAhead(s, i) ==
    /\ i <= Len(s)
    /\ IsWs(s[i])
    /\ (s[i] = "\n" \/ NewlineAhead(s, i + 1))

\* A substitution that leaves the text as it is.
CollapseWsNever(s) == s

\* re.sub(r"\s+\n", "\n", s): in every maximal run of whitespace, what
\* precedes the run's last "\n" is removed (the match is leftmost and \s+ is
\* greedy, so it starts at the run's start and ends at the run's last "\n").
CollapseWs(s) ==
    SelectSeq([i \in 1..Len(s) |->
                  IF IsWs(s[i]) /\ NewlineAhead(s, i + 1) THEN "" ELSE s[i]],
              LAMBDA c : c # "")

\* Positions of the "\n" of s, ascending.
NewlinePositions(s) ==
    SelectSeq([i \in 1..Len(s) |-> IF s[i] = "\n" THEN i ELSE 0],
              LAMBDA x : x # 0)

\* str.splitlines(): the pieces between line breaks; no empty last piece.
SplitLines(s) ==
    LET nl == NewlinePositions(s)
        n  == Len(nl)
        start(k) == IF k = 1 THEN 1 ELSE nl[k - 1] + 1
        stop(k)  == IF k <= n THEN nl[k] - 1 ELSE Len(s)
        count == IF s = <<>> \/ s[Len(s)] = "\n" THEN n ELSE n + 1
    IN  [k \in 1..count |-> SubSeq(s, start(k), stop(k))]

\* "\n".join(lines[lo..hi])
RECURSIVE JoinRange(_, _, _)
JoinRange(lines, lo, hi) ==
    IF lo > hi THEN <<>>
    ELSE IF lo = hi THEN lines[lo]
    ELSE LET mid == (lo + hi) \div 2
         IN  JoinRange(lines, lo, mid) \o <<"\n">> \o JoinRange(lines, mid + 1, hi)

JoinLines(lines) == JoinRange(lines, 1, Len(lines))

\* lines[:n]
Take(lines, n) == SubSeq(lines, 1, Min2(n, Len(lines)))

\* hashlib.sha256(s.encode("utf-8")).hexdigest(), as an injective function of
\* the text (collisions are not modelled); the digest of "" is not empty.
sha256(s) == <<"sha256:">> \o s

\* ------------------------------------------------- difflib.SequenceMatcher
\* Lines are compared as a (old lines) against b (new lines); indices are
\* Python's: 0-based, ranges half-open, a[i] is written a[i + 1].
Elements(b) == {b[j] : j \in 1..Len(b)}

\* __chain_b: with autojunk, the elements of a long b that occur too often
\* are dropped from the index the matcher starts its matches from.
Popular(b) ==
    IF Len(b) >= AutojunkMinLen
    THEN {x \in Elements(b) :
            Cardinality({j \in 1..Len(b) : b[j] = x})
                > Len(b) \div AutojunkDivisor + 1}
    ELSE {}

\* The least k in 0..lim with k = lim or Stop(k): the length of a run that
\* ends at the first position where Stop holds.
FirstStop(lim, Stop(_)) ==
    CHOOSE k \in 0..lim :
        /\ k = lim \/ Stop(k)
        /\ \A m \in 0..(k - 1) : ~Stop(m)

\* Length of the common run of indexed (not popular) elements from (i, j).
RunLen(a, b, pop, i, j, ahi, bhi) ==
    FirstStop(Min2(ahi - i, bhi - j),
              LAMBDA k : a[i + k + 1] # b[j + k + 1] \/ a[i + k + 1] \in pop)

\* Number of equal elements just before (i, j), not going below (alo, blo).
ExtendBack(a, b, i, j, alo, blo) ==
    FirstStop(Min2(i - alo, j - blo), LAMBDA k : a[i - k] # b[j - k])

\* Number of equal elements from (i, j) on, below (ahi, bhi).
ExtendFwd(a, b, i, j, ahi, bhi) ==
    FirstStop(Min2(ahi - i, bhi - j), LAMBDA k : a[i + k + 1] # b[j + k + 1])

\* find_longest_match(alo, ahi, blo, bhi) with isjunk = None: the longest
\* block of indexed elements, the earliest in a and then in b among the
\* longest, extended on both sides over equal elements.
FindLongestMatch(a, b, pop, alo, ahi, blo, bhi) ==
    LET ai == {i \in alo..(ahi - 1) : a[i + 1] \notin pop}
        bj == {j \in blo..(bhi - 1) : b[j + 1] \notin pop}
        starts == {p \in ai \X bj : a[p[1] + 1] = b[p[2] + 1]}
        len(p) == RunLen(a, b, pop, p[1], p[2], ahi, bhi)
        best == IF starts = {} THEN <<alo, blo>>
                ELSE CHOOSE p \in starts :
                       \A q \in starts :
                          \/ len(q) < len(p)
                          \/ /\ len(q) = len(p)
                             /\ \/ p[1] < q[1]
                                \/ p[1] = q[1] /\ p[2] <= q[2]
        size == IF starts = {} THEN 0 ELSE len(best)
        back == ExtendBack(a, b, best[1], best[2], alo, blo)
        fwd  == ExtendFwd(a, b, best[1] + size, best[2] + size, ahi, bhi)
    IN  <<best[1] - back, best[2] - back, back + size + fwd>>

\* get_matching_blocks, before adjacent blocks are merged: the longest match
\* of the window, then those of the windows left and right of it.
RECURSIVE MatchingBlocksIn(_, _, _, _, _, _, _)
MatchingBlocksIn(a, b, pop, alo, ahi, blo, bhi) ==
    At(FindLongestMatch(a, b, pop, alo, ahi, blo, bhi), LAMBDA m :
       IF m[3] = 0 THEN <<>>
       ELSE (IF alo < m[1] /\ blo < m[2]
             THEN MatchingBlocksIn(a, b, pop, alo, m[1], blo, m[2]) ELSE <<>>)
            \o <<m>>
            \o (IF m[1] + m[3] < ahi /\ m[2] + m[3] < bhi
                THEN MatchingBlocksIn(a, b, pop, m[1] + m[3], ahi,
                                      m[2] + m[3], bhi)
                ELSE <<>>))

\* get_matching_blocks' merge of adjacent blocks: cur is (i1, j1, k1).
RECURSIVE MergeAdjacent(_, _, _)
MergeAdjacent(blocks, n, cur) ==
    IF n > Len(blocks)
    THEN IF cur[3] > 0 THEN <<cur>> ELSE <<>>
    ELSE LET nx == blocks[n]
         IN  IF cur[1] + cur[3] = nx[1] /\ cur[2] + cur[3] = nx[2]
             THEN MergeAdjacent(blocks, n + 1, <<cur[1], cur[2], cur[3] + nx[3]>>)
             ELSE (IF cur[3] > 0 THEN <<cur>> ELSE <<>>)
                  \o MergeAdjacent(blocks, n + 1, nx)

GetMatchingBlocks(a, b) ==
    At(Popular(b), LAMBDA pop :
       At(MatchingBlocksIn(a, b, pop, 0, Len(a), 0, Len(b)), LAMBDA blocks :
          MergeAdjacent(blocks, 1, <<0, 0, 0>>)))
    \o << <<Len(a), Len(b), 0>> >>

\* get_opcodes: <<tag, i1, i2, j1, j2>> turning a into b; (i, j) is where the
\* previous block ended.
RECURSIVE OpcodesFrom(_, _, _, _)
OpcodesFrom(blocks, n, i, j) ==
    IF n > Len(blocks) THEN <<>>
    ELSE LET ai == blocks[n][1]
             bj == blocks[n][2]
             size == blocks[n][3]
             tag == IF i < ai /\ j < bj THEN "replace"
                    ELSE IF i < ai THEN "delete"
                    ELSE IF j < bj THEN "insert"
                    ELSE ""
         IN  (IF tag # "" THEN << <<tag, i, ai, j, bj>> >> ELSE <<>>)
             \o (IF size > 0
                 THEN << <<"equal", ai, ai + size, bj, bj + size>> >> ELSE <<>>)
             \o OpcodesFrom(blocks, n + 1, ai + size, bj + size)

GetOpcodes(a, b) ==
    At(GetMatchingBlocks(a, b), LAMBDA blocks : OpcodesFrom(blocks, 1, 0, 0))

\* get_grouped_opcodes' fix of a leading and of a trailing "equal" opcode:
\* only n lines of context are kept.
TrimFirst(codes, n) ==
    LET c == codes[1]
    IN  IF c[1] = "equal"
        THEN [codes EXCEPT ![1] =
                <<c[1], Max2(c[2], c[3] - n), c[3], Max2(c[4], c[5] - n), c[5]>>]
        ELSE codes

TrimLast(codes, n) ==
    LET c == codes[Len(codes)]
    IN  IF c[1] = "equal"
        THEN [codes EXCEPT ![Len(codes)] =
                <<c[1], c[2], Min2(c[3], c[2] + n), c[4], Min2(c[5], c[4] + n)>>]
        ELSE codes

\* The loop of get_grouped_opcodes from codes[k] on; group is the group
\* being collected.  A long "equal" opcode closes the group.
RECURSIVE GroupsFrom(_, _, _, _)
GroupsFrom(codes, k, group, n) ==
    IF k > Len(codes)
    THEN IF group # <<>> /\ ~(Len(group) = 1 /\ group[1][1] = "equal")
         THEN <<group>> ELSE <<>>
    ELSE LET c == codes[k]
         IN  IF c[1] = "equal" /\ c[3] - c[2] > n + n
             THEN <<Append(group, <<c[1], c[2], Min2(c[3], c[2] + n),
                                    c[4], Min2(c[5], c[4] + n)>>)>>
                  \o GroupsFrom(codes, k + 1,
                                << <<c[1], Max2(c[2], c[3] - n), c[3],
                                     Max2(c[4], c[5] - n), c[5]>> >>, n)
             ELSE GroupsFrom(codes, k + 1, Append(group, c), n)

GetGroupedOpcodes(a, b, n) ==
    At(GetOpcodes(a, b), LAMBDA codes :
       At(IF codes = <<>> THEN << <<"equal", 0, 1, 0, 1>> >> ELSE codes,
          LAMBDA some :
            At(TrimFirst(some, n), LAMBDA first :
               At(TrimLast(first, n), LAMBDA trimmed :
                  GroupsFrom(trimmed, 1, <<>>, n)))))

\* ---------------------------------------------------- difflib.unified_diff
\* _format_range_unified(start, stop)
FormatRangeUnified(start, stop) ==
    LET length == stop - start
    IN  IF length = 1 THEN <<ToString(start + 1)>>
        ELSE <<ToString(IF length = 0 THEN start ELSE start + 1), ",",
               ToString(length)>>

\* The lines of one opcode: " " + line, "-" + line, "+" + line.
OpcodeLines(a, b, c) ==
    LET olds(mark) == [i \in 1..(c[3] - c[2]) |-> <<mark>> \o a[c[2] + i]]
        news == [j \in 1..(c[5] - c[4]) |-> <<"+">> \o b[c[4] + j]]
    IN  IF c[1] = "equal" THEN olds(" ")
        ELSE (IF c[1] \in {"replace", "delete"} THEN olds("-") ELSE <<>>)
             \o (IF c[1] \in {"replace", "insert"} THEN news ELSE <<>>)

RECURSIVE GroupLines(_, _, _, _)
GroupLines(a, b, group, k) ==
    IF k > Len(group) THEN <<>>
    ELSE OpcodeLines(a, b, group[k]) \o GroupLines(a, b, group, k + 1)

\* "@@ -{} +{} @@" and the lines of the hunk.
HunkLines(a, b, group) ==
    LET first == group[1]
        last  == group[Len(group)]
    IN  << <<"@", "@", " ", "-">> \o FormatRangeUnified(first[2], last[3])
           \o <<" ", "+">> \o FormatRangeUnified(first[4], last[5])
           \o <<" ", "@", "@">> >>
        \o GroupLines(a, b, group, 1)

RECURSIVE HunksFrom(_, _, _, _)
HunksFrom(a, b, groups, k) ==
    IF k > Len(groups) THEN <<>>
    ELSE HunkLines(a, b, groups[k]) \o HunksFrom(a, b, groups, k + 1)

\* list(difflib.unified_diff(a, b, lineterm="", n=n)): nothing when there is
\* no hunk, else "--- ", "+++ " and the hunks.
UnifiedDiff(a, b, n) ==
    At(GetGroupedOpcodes(a, b, n), LAMBDA groups :
       IF groups = <<>> THEN <<>>
       ELSE << <<"-", "-", "-", " ">>, <<"+", "+", "+", " ">> >>
            \o HunksFrom(a, b, groups, 1))

\* ------------------------------------------------------------ configuration
\* The environment variables read at import (lines 7-18).  A run is started
\* with any combination of these values.
TargetUrls == {None, Some(<<>>), Some(<<"u">>)}
\* NTFY_TOPIC: not set, or a topic.
NtfyTopics == {<<>>, <<"t">>}
\* A pattern whose repetition count is beyond what re accepts: compiling it
\* raises OverflowError, which is not a re.error.
TooLargeRegex == <<"a{4294967296}">>
\* IGNORE_REGEX: not set, a pattern re rejects with re.error, a pattern
\* matching "b", and the pattern re rejects with OverflowError.
IgnoreRegexes == {<<>>, <<"(">>, <<"b">>, TooLargeRegex}
\* The patterns among them that re does not compile.
InvalidRegexes == {<<"(">>, TooLargeRegex}
\* NOTIFY_TEMPLATE: not set, or a template using the three placeholders.
Template == <<"{", "U", "R", "L", "}", " ", "{", "T", "I", "M", "E", "}",
              ":", "{", "D", "I", "F", "F", "}">>
NotifyTemplates == {<<>>, Template}
NotifyPrefix == <<"Aenderung erkannt">>
NotifyTitle == <<"Ergebnis M2">>
NtfyServer == <<"https://ntfy.sh">>

\* The usual settings: a target, a topic, no pattern, no template.
BaseEnv ==
    [TARGET_URL |-> Some(<<"u">>), NTFY_TOPIC |-> <<"t">>,
     IGNORE_REGEX |-> <<>>, NOTIFY_TEMPLATE |-> <<>>]

\* The environments a run is started with: the usual one, and each setting
\* given each of its other values.
Envs ==
    {[BaseEnv EXCEPT !.TARGET_URL = x] : x \in TargetUrls}
    \cup {[BaseEnv EXCEPT !.NTFY_TOPIC = x] : x \in NtfyTopics}
    \cup {[BaseEnv EXCEPT !.IGNORE_REGEX = x] : x \in IgnoreRegexes}
    \cup {[BaseEnv EXCEPT !.NOTIFY_TEMPLATE = x] : x \in NotifyTemplates}

\* ------------------------------------------------------------- load_state
DefaultState ==
    [last_hash |-> None, last_excerpt |-> <<>>, updated_at |-> None,
     etag |-> None, last_modified |-> None, last_ok_run |-> None]

\* load_state(): the record of state.json, or the default when there is no
\* file.  disk is None or Some(record).
load_state(disk) == IF disk # None THEN disk[1] ELSE DefaultState

\* --------------------------------------------------------------- the world
Procs == {1, 2}

\* What the target can answer.  status 0 stands for no response at all.
EtagHeaders == {None, Some(<<>>), Some(<<"e">>)}
LastModifiedHeaders == {None, Some(<<"m">>)}

\* The page of LongLines lines "a".
LongText == JoinLines([i \in 1..LongLines |-> <<"a">>])

\* soup.get_text(separator="\n", strip=True) of the pages served: no leading
\* or trailing whitespace.
Bodies == {<<>>, <<"a">>, <<"b">>, <<"a", "\n", "b">>, <<"a", " ", "\n", "b">>,
           <<"b", " ", "a">>, LongText}

\* The pages served with every combination of validators; the other pages
\* are served without ETag and Last-Modified.
ValidatedBodies == {<<"a">>, <<"b">>}

\* With two overlapping runs the pages, settings and answers are fewer.
BodiesOf(procs) ==
    IF Cardinality(procs) > 1 THEN {<<"a">>, <<"b">>} ELSE Bodies

EnvsOf(procs) ==
    IF Cardinality(procs) > 1
    THEN {e \in Envs : /\ e.TARGET_URL # Some(<<>>)
                       /\ e.NTFY_TOPIC # <<>>
                       /\ e.IGNORE_REGEX = <<>>
                       /\ e.NOTIFY_TEMPLATE = <<>>}
    ELSE Envs

EtagHeadersOf(procs) ==
    IF Cardinality(procs) > 1 THEN {None, Some(<<"e">>)} ELSE EtagHeaders

LastModifiedHeadersOf(procs) ==
    IF Cardinality(procs) > 1 THEN {None} ELSE LastModifiedHeaders

NoResponse ==
    [error |-> TRUE, status |-> 0, etag |-> None, last_modified |-> None,
     body |-> <<>>]

\* Responses without a page of interest: 204, 304, error statuses, and a
\* status that is neither success nor error (300 Multiple Choices without a
\* Location header, which requests returns as it is).  Interim 1xx responses
\* are left to the HTTP client.
OtherStatuses == {204, 300, 304, 404, 503}

OtherStatusesOf(procs) ==
    IF Cardinality(procs) > 1 THEN {304, 404} ELSE OtherStatuses

Responses(procs) ==
    {NoResponse}
    \cup [error : {FALSE}, status : OtherStatusesOf(procs), etag : {None},
          last_modified : {None}, body : {<<"a">>}]
    \cup {r \in [error : {FALSE}, status : {200},
                 etag : EtagHeadersOf(procs),
                 last_modified : LastModifiedHeadersOf(procs),
                 body : BodiesOf(procs)] :
             \/ r.body \in ValidatedBodies
             \/ r.etag = None /\ r.last_modified = None}

\* What can become of the POST to ntfy.
PostResults == {"ok", "http_error", "network_error"}

PostResultsOf(procs, e) ==
    IF e.NTFY_TOPIC = <<>> THEN {"ok"}
    ELSE IF Cardinality(procs) > 1 THEN {"ok", "network_error"}
    ELSE PostResults

\* ---------------------------------------------------------- fetch_content
\* re.sub(IGNORE_REGEX, "", text) inside try/except re.error: a pattern that
\* does not compile leaves the text as it is.
IgnoreSub(regex, text) ==
    IF regex = <<"b">> THEN SelectSeq(text, LAMBDA c : c # "b") ELSE text

\* Whether lines 83-87 let an exception out: re.sub runs only when
\* IGNORE_REGEX is set, and only re.error is caught.
IgnoreSubRaises(regex) == regex = TooLargeRegex

\* Line 89: re.sub(r"\s+\n", "\n", text).strip()
Normalize(text) == Strip(CollapseWs(text))

\* Lines 83-89: the ignore pattern, then the whitespace before line breaks,
\* then strip().  raw is soup.get_text(separator="\n", strip=True).
ExtractText(regex, raw) ==
    Strip(CollapseWs(IF regex # <<>> THEN IgnoreSub(regex, raw) ELSE raw))

\* ExtractText of every page served under every IGNORE_REGEX, evaluated once
\* (f @@ <<>> is f, as an explicit table).
ExtractTable ==
    [regex \in IgnoreRegexes |->
        ([raw \in Bodies |-> ExtractText(regex, raw)] @@ <<>>)] @@ <<>>

\* The texts a run can obtain.
Contents == {ExtractTable[regex][raw] : regex \in IgnoreRegexes, raw \in Bodies}

\* A status check that raises for server errors only.
RaisesForServerErrors(status) == 500 <= status /\ status < 600

\* requests' Response.raise_for_status(): HTTPError for 400 <= status < 600.
RaisesForStatus(status) == 400 <= status /\ status < 600

\* Request headers that never hold If-Modified-Since.
RequestHeadersEtagOnly(etag, last_modified) ==
    [if_none_match |-> IF Truthy(etag) THEN etag ELSE None,
     if_modified_since |-> None]

\* The request headers of line 60-64 (User-Agent left out).
RequestHeaders(etag, last_modified) ==
    [if_none_match |-> IF Truthy(etag) THEN etag ELSE None,
     if_modified_since |-> IF Truthy(last_modified) THEN last_modified ELSE None]

\* A header lookup without default.
HeaderGetNoDefault(header, default) == header

\* resp.headers.get(name, default): header is None or Some(value).
HeaderGet(header, default) == IF header # None THEN header ELSE default

\* fetch_content(url, etag, last_modified) against the response resp:
\* resp.error says that requests.get raised (network error, timeout).
\* raised: an exception leaves fetch_content.
fetch_content(env, etag, last_modified, resp) ==
    LET request == RequestHeaders(etag, last_modified)
        failure == [raised |-> TRUE, content |-> None, etag |-> etag,
                    last_modified |-> last_modified, not_modified |-> FALSE,
                    request |-> request]
    IN  IF resp.error THEN failure
        ELSE IF resp.status = 304
        THEN [failure EXCEPT !.raised = FALSE, !.not_modified = TRUE]
        ELSE IF RaisesForStatus(resp.status) THEN failure
        ELSE IF IgnoreSubRaises(env.IGNORE_REGEX) THEN failure
        ELSE [raised |-> FALSE,
              content |-> Some(ExtractTable[env.IGNORE_REGEX][resp.body]),
              etag |-> HeaderGet(resp.etag, etag),
              last_modified |-> HeaderGet(resp.last_modified, last_modified),
              not_modified |-> FALSE,
              request |-> request]

\* ---------------------------------------------------------- build_message
\* Whether pat occurs in s at position i.
OccursAt(s, i, pat) ==
    i + Len(pat) - 1 <= Len(s) /\ SubSeq(s, i, i + Len(pat) - 1) = pat

\* str.replace(pat, rep) from position i on: leftmost occurrences, the
\* replacement is not searched again.
RECURSIVE ReplaceFrom(_, _, _, _)
ReplaceFrom(s, i, pat, rep) ==
    IF i > Len(s) THEN <<>>
    ELSE IF OccursAt(s, i, pat)
    THEN rep \o ReplaceFrom(s, i + Len(pat), pat, rep)
    ELSE <<s[i]>> \o ReplaceFrom(s, i + 1, pat, rep)

Replace(s, pat, rep) == ReplaceFrom(s, 1, pat, rep)

\* time.strftime("%Y-%m-%d %H:%M:%S %Z", time.localtime()) at time t.
FormatTime(t) == <<ToString(t)>>

\* The three backquotes that fence the diff in the default message.
Fence == <<"<fence>">>

\* The placeholders of lines 51-53.
UrlMark == <<"{", "U", "R", "L", "}">>
TimeMark == <<"{", "T", "I", "M", "E", "}">>
DiffMark == <<"{", "D", "I", "F", "F", "}">>

\* build_message(url, diff_block) at time now, under NOTIFY_TEMPLATE.
build_message(env, url, diff_block, now) ==
    IF env.NOTIFY_TEMPLATE # <<>>
    THEN Replace(Replace(Replace(env.NOTIFY_TEMPLATE, UrlMark, url),
                         TimeMark, FormatTime(now)),
                 DiffMark, diff_block)
    ELSE NotifyPrefix \o <<"\n", "URL: ">> \o url \o <<"\n", "Zeit: ">>
         \o FormatTime(now) \o <<"\n", "\n", "*Kurzdiff:*", "\n">> \o Fence \o <<"\n">>
         \o diff_block \o <<"\n">> \o Fence

\* -------------------------------------------------------------- send_ntfy
\* A send_ntfy without its try/except: a network error leaves it.
send_ntfy_uncaught(env, title, text, result) ==
    IF env.NTFY_TOPIC = <<>>
    THEN [raised |-> FALSE, posts |-> <<>>, result |-> "no_topic"]
    ELSE [raised |-> result = "network_error",
          posts |-> << [url |-> NtfyServer \o <<"/">> \o env.NTFY_TOPIC,
                        title |-> title, body |-> text] >>,
          result |-> result]

\* send_ntfy(title, text): nothing without a topic; otherwise one POST, whose
\* result ("ok", "http_error": a non-success response, "network_error":
\* requests.post raised) is dropped.  Returns what the call did: raised says
\* whether an exception leaves send_ntfy, posts holds the request made.
send_ntfy(env, title, text, result) ==
    IF env.NTFY_TOPIC = <<>>
    THEN [raised |-> FALSE, posts |-> <<>>, result |-> "no_topic"]
    ELSE [raised |-> FALSE,
          posts |-> << [url |-> NtfyServer \o <<"/">> \o env.NTFY_TOPIC,
                        title |-> title, body |-> text] >>,
          result |-> result]

\* --------------------------------------------------------------- the diff
\* Line 121: "\n".join(content.splitlines()[:400])
Excerpt(content) == JoinLines(Take(SplitLines(content), ExcerptMaxLines))

\* Excerpt of every text a run can obtain, evaluated once.
ExcerptTable == [content \in Contents |-> Excerpt(content)] @@ <<>>

\* The values last_excerpt can have.
Excerpts == {<<>>} \cup {ExcerptTable[content] : content \in Contents}

Placeholder == <<"(Inhalt geaendert)">>

\* A pretty_diff that joins every line of the diff.
PrettyDiffUntruncated(last_excerpt, content) ==
    LET diff_lines == UnifiedDiff(SplitLines(last_excerpt),
                                  SplitLines(content), DiffContext)
    IN  IF diff_lines # <<>> THEN JoinLines(diff_lines) ELSE Placeholder

\* Lines 112-115: pretty_diff from the stored excerpt and the new content.
PrettyDiff(last_excerpt, content) ==
    LET old == SplitLines(last_excerpt)
        new == SplitLines(content)
        diff_lines == UnifiedDiff(old, new, DiffContext)
    IN  IF diff_lines # <<>>
        THEN JoinLines(Take(diff_lines, DiffMaxLines))
        ELSE Placeholder

\* PrettyDiff of every stored excerpt and every text, evaluated once.
PrettyDiffTable ==
    [last_excerpt \in Excerpts |->
        ([content \in Contents |-> PrettyDiff(last_excerpt, content)]
            @@ <<>>)] @@ <<>>

\* ------------------------------------------------------------------- main
\* A change decision that takes "no hash stored" for "nothing to compare".
HashDiffersFromStored(new_hash, old_hash) ==
    old_hash # None /\ new_hash # old_hash

\* A change decision that compares the lengths of the digests' texts.
HashDiffersByLength(new_hash, old_hash) ==
    IF old_hash = None THEN TRUE ELSE Len(new_hash[1]) # Len(old_hash[1])

\* A change decision that is always taken.
HashDiffersAlways(new_hash, old_hash) == TRUE

\* Line 111: the change decision.  new_hash is Some(digest), old_hash is
\* state.get("last_hash"): None or Some(digest).
HashDiffers(new_hash, old_hash) == new_hash # old_hash

\* A change that stores the hash of the excerpt.
RecordChangeHashesExcerpt(st, content, now) ==
    [st EXCEPT !.last_hash = Some(sha256(ExcerptTable[content])),
               !.last_excerpt = ExcerptTable[content],
               !.updated_at = Some(now)]

\* A change that stores the hash but leaves the excerpt.
RecordChangeKeepsExcerpt(st, content, now) ==
    [st EXCEPT !.last_hash = Some(sha256(content)),
               !.updated_at = Some(now)]

\* Lines 120-122.
RecordChange(st, content, now) ==
    [st EXCEPT !.last_hash = Some(sha256(content)),
               !.last_excerpt = ExcerptTable[content],
               !.updated_at = Some(now)]

\* A run record that leaves last_ok_run.
RecordRunNoStamp(st, etag, last_modified, now) ==
    [st EXCEPT !.etag = etag, !.last_modified = last_modified]

\* A run record that leaves the validators.
RecordRunKeepsValidators(st, etag, last_modified, now) ==
    [st EXCEPT !.last_ok_run = Some(now)]

\* Lines 124-126.
RecordRun(st, etag, last_modified, now) ==
    [st EXCEPT !.etag = etag,
               !.last_modified = last_modified,
               !.last_ok_run = Some(now)]

\* A not-modified branch that also stamps updated_at.
RecordNotModifiedStampsUpdate(st, now) ==
    [st EXCEPT !.last_ok_run = Some(now), !.updated_at = Some(now)]

\* Lines 103-104: the not-modified branch.
RecordNotModified(st, now) == [st EXCEPT !.last_ok_run = Some(now)]

\* ------------------------------------------------------------------ state
VARIABLES
    disk,    \* state.json: None (no file) or Some(record)
    clock,   \* int(time.time()) at the latest read (lines 48, 120, 126)
    active,  \* the processes the scheduler starts (fixed)
    pc,      \* per process: "idle", "loaded", "done" (exit 0), "failed"
    env,     \* per process: the environment of its run
    state,   \* per process: the dict `state` of main()
    run,     \* per process: what its run did (requests, calls, counts)
    hist,    \* history of the runs that ended (see NoHist)
    pure     \* the call of a function taken alone (see NoCall)

vars == <<disk, clock, active, pc, env, state, run, hist, pure>>

NoRun ==
    [path |-> "none", status |-> 0, content |-> None, etag |-> None,
     last_modified |-> None, calls |-> 0,
     posts |-> <<>>, post_result |-> "none", pretty_diff |-> None,
     gets |-> <<>>, reads |-> 0, writes |-> 0,
     resp_etag |-> None, resp_last_modified |-> None]

\* History: content is the text of the most recent run whose fetch returned
\* content, etag and last_modified the ETag and Last-Modified of the most
\* recent content response that carried one, saved the record the most
\* recent successful run saved.
NoHist ==
    [content |-> None, etag |-> None, last_modified |-> None,
     saved |-> None]

\* The fetch of a run returned the content of response resp.
HistFetched(h, f, resp) ==
    [h EXCEPT !.content = f.content,
              !.etag = IF resp.etag # None THEN resp.etag ELSE @,
              !.last_modified =
                  IF resp.last_modified # None THEN resp.last_modified ELSE @]

\* A run saved st.
HistSaved(h, st) == [h EXCEPT !.saved = Some(st)]

\* No function is called alone in the runs of main().
NoCall == [fn |-> "none"]

InitWith(procs) ==
    /\ disk = None
    /\ clock = 1
    /\ active = procs
    /\ pc = [p \in Procs |-> "idle"]
    /\ env \in [Procs -> {CHOOSE e \in Envs : e.TARGET_URL = None}]
    /\ state = [p \in Procs |-> DefaultState]
    /\ run = [p \in Procs |-> NoRun]
    /\ hist = NoHist
    /\ pure = NoCall

Init == InitWith({1})

InitOverlap == InitWith(Procs)

\* What time.time() can return at its next read: the clock does not go back.
\* Time that passes where the program does not read it shows at that read.
Times == clock..MaxClock

\* A process that is not running can be started.
CanStart(p) == p \in active /\ pc[p] \in {"idle", "done", "failed"}

\* Line 96 fails: TARGET_URL is not set or empty.
AssertFails(p) ==
    /\ CanStart(p)
    /\ \E e \in EnvsOf(active) :
          /\ ~Truthy(e.TARGET_URL)
          /\ env' = [env EXCEPT ![p] = e]
    /\ pc' = [pc EXCEPT ![p] = "failed"]
    /\ state' = [state EXCEPT ![p] = DefaultState]
    /\ run' = [run EXCEPT ![p] = [NoRun EXCEPT !.path = "config_error"]]
    /\ UNCHANGED <<disk, clock, active, hist, pure>>

\* Lines 96-98: the assertion holds, state.json is read.
LoadState(p) ==
    /\ CanStart(p)
    /\ \E e \in EnvsOf(active) :
          /\ Truthy(e.TARGET_URL)
          /\ env' = [env EXCEPT ![p] = e]
    /\ pc' = [pc EXCEPT ![p] = "loaded"]
    /\ state' = [state EXCEPT ![p] = load_state(disk)]
    /\ run' = [run EXCEPT ![p] = [NoRun EXCEPT !.reads = 1]]
    /\ UNCHANGED <<disk, clock, active, hist, pure>>

Fetched(p, resp) ==
    fetch_content(env[p], state[p].etag, state[p].last_modified, resp)

\* Lines 99-101 raise: the run ends with the exception, nothing is saved.
FetchFailure(p) ==
    /\ pc[p] = "loaded"
    /\ \E resp \in Responses(active) :
          LET f == Fetched(p, resp)
          IN  /\ f.raised
              /\ run' = [run EXCEPT ![p].path =
                                       IF resp.error
                                          \/ RaisesForStatus(resp.status)
                                       THEN "fetch_error"
                                       ELSE "pattern_error",
                                    ![p].status = resp.status,
                                    ![p].gets = <<f.request>>]
    /\ pc' = [pc EXCEPT ![p] = "failed"]
    /\ UNCHANGED <<disk, clock, active, env, state, hist, pure>>

\* Lines 99-106: 304, last_ok_run is refreshed and the state saved.
NotModified(p) ==
    /\ pc[p] = "loaded"
    /\ \E resp \in Responses(active), t \in Times :
          LET f  == Fetched(p, resp)
              st == RecordNotModified(state[p], t)
          IN  /\ ~f.raised
              /\ f.not_modified
              /\ clock' = t
              /\ state' = [state EXCEPT ![p] = st]
              /\ disk' = Some(st)
              /\ hist' = HistSaved(hist, st)
              /\ run' = [run EXCEPT ![p].path = "not_modified",
                                    ![p].status = resp.status,
                                    ![p].etag = f.etag,
                                    ![p].last_modified = f.last_modified,
                                    ![p].gets = <<f.request>>,
                                    ![p].writes = 1]
    /\ pc' = [pc EXCEPT ![p] = "done"]
    /\ UNCHANGED <<active, env, pure>>

\* Lines 99-127 with content whose hash is the stored one: only lines
\* 124-127 act.
NoChange(p) ==
    /\ pc[p] = "loaded"
    /\ \E resp \in Responses(active), t \in Times :
          LET f == Fetched(p, resp)
          IN  /\ ~f.raised
              /\ ~f.not_modified
              /\ ~HashDiffers(Some(sha256(f.content[1])), state[p].last_hash)
              /\ LET st == RecordRun(state[p], f.etag, f.last_modified, t)
                 IN  /\ state' = [state EXCEPT ![p] = st]
                     /\ disk' = Some(st)
                     /\ hist' = HistSaved(HistFetched(hist, f, resp), st)
              /\ clock' = t
              /\ run' = [run EXCEPT ![p].path = "unchanged",
                                    ![p].status = resp.status,
                                    ![p].content = f.content,
                                    ![p].resp_etag = resp.etag,
                                    ![p].resp_last_modified =
                                        resp.last_modified,
                                    ![p].etag = f.etag,
                                    ![p].last_modified = f.last_modified,
                                    ![p].gets = <<f.request>>,
                                    ![p].writes = 1]
    /\ pc' = [pc EXCEPT ![p] = "done"]
    /\ UNCHANGED <<active, env, pure>>

\* Lines 99-127 with content whose hash differs: the diff, the message and
\* its dispatch at time tm, the new hash and excerpt at time tu, the
\* validators and the save at time tk.
ChangeDetected(p) ==
    /\ pc[p] = "loaded"
    /\ \E resp \in Responses(active) :
        LET f == Fetched(p, resp)
        IN  /\ ~f.raised
            /\ ~f.not_modified
            /\ HashDiffers(Some(sha256(f.content[1])), state[p].last_hash)
            /\ LET content == f.content[1]
                   pretty_diff == PrettyDiffTable[state[p].last_excerpt][content]
               IN  \E tm \in Times :
                     LET text == build_message(env[p], env[p].TARGET_URL[1],
                                               pretty_diff, tm)
                     IN  \E result \in PostResultsOf(active, env[p]),
                            tu \in tm..MaxClock :
                           \E tk \in tu..MaxClock :
                             LET sent == send_ntfy(env[p], NotifyTitle, text,
                                                   result)
                                 st == RecordRun(
                                         RecordChange(state[p], content, tu),
                                         f.etag, f.last_modified, tk)
                                 did == [run[p] EXCEPT
                                           !.path = "changed",
                                           !.status = resp.status,
                                           !.content = f.content,
                                           !.resp_etag = resp.etag,
                                           !.resp_last_modified =
                                               resp.last_modified,
                                           !.etag = f.etag,
                                           !.last_modified = f.last_modified,
                                           !.gets = <<f.request>>,
                                           !.calls = 1,
                                           !.posts = sent.posts,
                                           !.post_result = sent.result,
                                           !.pretty_diff = Some(pretty_diff)]
                             IN  IF sent.raised
                                 THEN /\ pc' = [pc EXCEPT ![p] = "failed"]
                                      /\ run' = [run EXCEPT ![p] = did]
                                      /\ clock' = tm
                                      /\ hist' = HistFetched(hist, f, resp)
                                      /\ UNCHANGED <<disk, state>>
                                 ELSE /\ pc' = [pc EXCEPT ![p] = "done"]
                                      /\ run' = [run EXCEPT ![p] =
                                                   [did EXCEPT !.writes = 1]]
                                      /\ clock' = tk
                                      /\ state' = [state EXCEPT ![p] = st]
                                      /\ disk' = Some(st)
                                      /\ hist' = HistSaved(
                                            HistFetched(hist, f, resp), st)
    /\ UNCHANGED <<active, env, pure>>

Next ==
    \E p \in Procs :
        \/ AssertFails(p)
        \/ LoadState(p)
        \/ FetchFailure(p)
        \/ NotModified(p)
        \/ NoChange(p)
        \/ ChangeDetected(p)

\* ---------------------------------------------- functions taken alone
\* No run of main(): the functions below are applied to inputs drawn from
\* bounded sets, and the call is recorded in pure.
InitPure == InitWith({})

\* Every text of at most MaxRawLen characters.
RawTexts == UNION {[1..n -> Alphabet] : n \in 0..MaxRawLen}

\* text with character c put in at position i.
InsertAt(text, i, c) ==
    SubSeq(text, 1, i - 1) \o <<c>> \o SubSeq(text, i, Len(text))

\* Line 89 applied to a text a and to a with one more whitespace character
\* (b), and the decision of line 111 for b when the stored hash is the one
\* line 120 stores for a.
NormalizePair ==
    /\ pure = NoCall
    /\ \E a \in RawTexts, i \in 1..(MaxRawLen + 1), c \in {" ", "\n"} :
          /\ i <= Len(a) + 1
          /\ \E b \in {InsertAt(a, i, c)} :
                \E na \in {Normalize(a)}, nb \in {Normalize(b)} :
                  pure' = [fn |-> "normalize", a |-> a, b |-> b, at |-> i,
                           na |-> na, nb |-> nb,
                           changed |->
                              HashDiffers(Some(sha256(nb)),
                                          Some(sha256(na)))]
    /\ UNCHANGED <<disk, clock, active, pc, env, state, run, hist>>

SpecNormalize == InitPure /\ [][NormalizePair]_vars

\* The pieces templates are made of, and the templates: the one of the
\* configuration and every sequence of 1..MaxPieces pieces.
Pieces == {UrlMark, TimeMark, DiffMark, <<"x">>, <<"{", "T">>, <<"}">>}

RECURSIVE Concat(_)
Concat(seqs) == IF seqs = <<>> THEN <<>> ELSE Head(seqs) \o Concat(Tail(seqs))

MessageTemplates ==
    {Template}
    \cup {Concat(ps) : ps \in UNION {[1..n -> Pieces] : n \in 1..MaxPieces}}

\* The URLs and diff blocks given to build_message alone: plain ones, and
\* ones that hold the text of a placeholder or of a part of one.
MessageUrls == {<<"u">>, TimeMark, DiffMark, <<"I", "M", "E">>}
MessageDiffs == {<<"d">>, UrlMark}

\* build_message(url, diff_block) under a template, at time now.
RenderMessage ==
    /\ pure = NoCall
    /\ \E template \in MessageTemplates, url \in MessageUrls,
          diff_block \in MessageDiffs, now \in 1..MaxClock :
          \E out \in {build_message(
                         [BaseEnv EXCEPT !.NOTIFY_TEMPLATE = template],
                         url, diff_block, now)} :
            pure' = [fn |-> "build_message", template |-> template,
                     url |-> url, diff_block |-> diff_block, now |-> now,
                     out |-> out]
    /\ UNCHANGED <<disk, clock, active, pc, env, state, run, hist>>

SpecMessage == InitPure /\ [][RenderMessage]_vars

\* fetch_content against one response under an IGNORE_REGEX (with) and with
\* IGNORE_REGEX not set (without), the validators given being the same.
ExtractPair ==
    /\ pure = NoCall
    /\ \E regex \in IgnoreRegexes,
          resp \in {r \in Responses({1}) :
                      r.error \/ r.status \in {200, 304, 404}},
          etag \in EtagHeaders :
          \E with \in {fetch_content([BaseEnv EXCEPT !.IGNORE_REGEX = regex],
                                     etag, None, resp)},
             without \in {fetch_content(
                             [BaseEnv EXCEPT !.IGNORE_REGEX = <<>>],
                             etag, None, resp)} :
            pure' = [fn |-> "fetch_content", regex |-> regex, resp |-> resp,
                     etag |-> etag, with |-> with, without |-> without]
    /\ UNCHANGED <<disk, clock, active, pc, env, state, run, hist>>

SpecExtract == InitPure /\ [][ExtractPair]_vars

\* Runs one after the other (one process).
Spec == Init /\ [][Next]_vars

\* Two processes whose runs may overlap.
SpecOverlap == InitOverlap /\ [][Next]_vars

\* ================================================================== claims
\* The step of process p that ends its run (the rest of main() after
\* load_state).
EndsRun(p) == pc[p] = "loaded" /\ pc'[p] # "loaded"

ValidatorFields == {"etag", "last_modified"}
ChangeFields == {"last_hash", "last_excerpt", "updated_at"}
AllFields == ChangeFields \cup ValidatorFields \cup {"last_ok_run"}

\* C1: a run whose fetch gets 304 ends successfully and persists a record
\* whose last_hash, last_excerpt, updated_at, etag and last_modified are those
\* of the record persisted before the run; only last_ok_run may differ, and
\* the notifier is not called and nothing is posted.
C1_NotModifiedKeepsRecord ==
    [][\A p \in Procs :
         EndsRun(p) /\ run'[p].status = 304
         => /\ pc'[p] = "done"
            /\ disk' # None
            /\ \A fld \in ChangeFields \cup ValidatorFields :
                  disk'[1][fld] = load_state(disk)[fld]
            /\ run'[p].calls = 0
            /\ run'[p].posts = <<>>]_vars

\* A 304 run has ended on a record that holds a hash, an update time and
\* validators, with a later last_ok_run.
C1_Witness ==
    /\ pc[1] = "done"
    /\ run[1].status = 304
    /\ disk # None
    /\ disk[1].last_hash # None
    /\ disk[1].etag # None
    /\ disk[1].updated_at = Some(1)
    /\ disk[1].last_ok_run = Some(2)

\* An HTTP error status: 4xx or 5xx.
IsErrorStatus(status) == status \in 400..599

\* C2: when the target fetch fails (a 4xx or 5xx status, or no response:
\* network error, timeout) the run fails without saving: the persisted record
\* is the same in every field, and the notifier is not called.
C2_FetchFailureKeepsDisk ==
    [][\A p \in Procs :
         EndsRun(p) /\ (run'[p].status = 0 \/ IsErrorStatus(run'[p].status))
         => /\ pc'[p] = "failed"
            /\ disk' = disk
            /\ run'[p].writes = 0
            /\ run'[p].calls = 0
            /\ run'[p].posts = <<>>]_vars

\* A run has failed on a 404 while state.json holds a record.
C2_Witness ==
    /\ pc[1] = "failed"
    /\ run[1].path = "fetch_error"
    /\ run[1].status = 404
    /\ run[1].writes = 0
    /\ disk # None
    /\ disk[1].last_hash # None

\* A success status: 2xx.
IsSuccessStatus(status) == status \in 200..299

\* C3: of a response that came, status 304 is the not-modified signal, a 2xx
\* status gives content, and every other status (1xx, other 3xx, 4xx, 5xx)
\* raises: its body never reaches hashing, notification or persistence.
C3_OnlySuccessIsContent ==
    \A p \in Procs :
       pc[p] \in {"done", "failed"} /\ run[p].gets # <<>> /\ run[p].status # 0
       => IF run[p].status = 304 THEN run[p].path = "not_modified"
          ELSE IF IsSuccessStatus(run[p].status)
          THEN run[p].path \in {"unchanged", "changed", "pattern_error"}
          ELSE /\ run[p].path = "fetch_error"
               /\ run[p].content = None
               /\ run[p].writes = 0

\* "\n".join of the first n lines of text, tabulated for the texts a run can
\* obtain.
FirstLines(text, n) == JoinLines(Take(SplitLines(text), n))

FirstLinesTable ==
    [text \in Contents |-> FirstLines(text, ExcerptMaxLines)] @@ <<>>

\* C4: in a run that detects a change and whose dispatch fails (network
\* error, or a non-success response of the push endpoint), the run ends
\* successfully and the saved record holds the new hash, the new excerpt, an
\* updated_at read during the run, the validators the fetch returned and
\* last_ok_run: every field is fixed by the fetch and the clock, none by the
\* dispatch.
C4_DispatchFailureStillSaves ==
    [][\A p \in Procs :
         /\ EndsRun(p)
         /\ run'[p].path = "changed"
         /\ run'[p].post_result \in {"network_error", "http_error"}
         => /\ pc'[p] = "done"
            /\ run'[p].writes = 1
            /\ disk' # None
            /\ disk'[1].last_hash = Some(sha256(run'[p].content[1]))
            /\ disk'[1].last_excerpt = FirstLinesTable[run'[p].content[1]]
            /\ disk'[1].updated_at # None
            /\ disk'[1].updated_at[1] \in clock..clock'
            /\ disk'[1].etag = run'[p].etag
            /\ disk'[1].last_modified = run'[p].last_modified
            /\ disk'[1].last_ok_run = Some(clock')]_vars

\* A change to "b" was saved at time 2 although the POST met a network error.
C4_Witness ==
    /\ pc[1] = "done"
    /\ run[1].path = "changed"
    /\ run[1].post_result = "network_error"
    /\ run[1].posts # <<>>
    /\ run[1].pretty_diff # Some(Placeholder)
    /\ disk[1].last_hash = Some(sha256(<<"b">>))
    /\ disk[1].updated_at = Some(2)

\* C5: if the persisted last_hash is absent and the fetch returns content,
\* then whatever the content, the empty text included, the run records a
\* change (last_hash, last_excerpt, updated_at are set and saved) and calls
\* the notifier.
C5_FirstContentIsAChange ==
    [][\A p \in Procs :
         /\ EndsRun(p)
         /\ load_state(disk).last_hash = None
         /\ run'[p].content # None
         => /\ run'[p].path = "changed"
            /\ run'[p].calls = 1
            /\ pc'[p] = "done"
            /\ disk' # None
            /\ disk'[1].last_hash = Some(sha256(run'[p].content[1]))
            /\ disk'[1].last_excerpt = FirstLinesTable[run'[p].content[1]]
            /\ disk'[1].updated_at # None]_vars

\* The empty text was recorded as a change and posted; the diff was the
\* placeholder, so the excerpt before was empty: no hash was stored.
C5_Witness ==
    /\ pc[1] = "done"
    /\ run[1].path = "changed"
    /\ run[1].content = Some(<<>>)
    /\ run[1].pretty_diff = Some(Placeholder)
    /\ run[1].calls = 1
    /\ run[1].posts # <<>>
    /\ disk[1].last_hash = Some(sha256(<<>>))

\* C6: in every persisted record last_hash and last_excerpt belong to the
\* same content: last_hash is absent and last_excerpt empty, or there is a
\* text T with last_hash = sha256(T) and last_excerpt = the first 400 lines
\* of T.
C6_HashAndExcerptAgree ==
    /\ [](disk # None =>
            \/ disk[1].last_hash = None /\ disk[1].last_excerpt = <<>>
            \/ \E text \in Contents :
                  /\ disk[1].last_hash = Some(sha256(text))
                  /\ disk[1].last_excerpt = FirstLinesTable[text])
    /\ [][\A p \in Procs :
            EndsRun(p) /\ pc'[p] = "done"
            => IF run'[p].path = "changed"
               THEN /\ disk'[1].last_hash = Some(sha256(run'[p].content[1]))
                    /\ disk'[1].last_excerpt
                          = FirstLinesTable[run'[p].content[1]]
               ELSE /\ disk'[1].last_hash = load_state(disk).last_hash
                    /\ disk'[1].last_excerpt
                          = load_state(disk).last_excerpt]_vars

\* The long page was recorded: its excerpt is cut (its 400 first lines).
C6_Witness ==
    /\ disk # None
    /\ disk[1].last_hash = Some(sha256(LongText))
    /\ disk[1].last_excerpt # LongText
    /\ Len(disk[1].last_excerpt) = 2 * ExcerptMaxLines - 1

\* The lines of the stored excerpts and of the texts a run can obtain.
LinesTable == [text \in Excerpts \cup Contents |-> SplitLines(text)] @@ <<>>

\* C7: in a run whose fetch returns content the branch is decided by
\* comparing sha256(content) with the stored last_hash alone.  Equal: the
\* notifier is not called; last_hash, last_excerpt and updated_at are saved
\* as they were, with the validators returned and last_ok_run.  Different:
\* the notifier is called (one POST when a topic is set) and last_hash,
\* last_excerpt and updated_at are rewritten; this also when the rendered
\* diff is empty.
C7_HashAloneDecides ==
    [][\A p \in Procs :
         EndsRun(p) /\ run'[p].content # None /\ pc'[p] = "done"
         => /\ disk' = Some(state'[p])
            /\ disk'[1].etag = run'[p].etag
            /\ disk'[1].last_modified = run'[p].last_modified
            /\ disk'[1].last_ok_run = Some(clock')
            /\ IF Some(sha256(run'[p].content[1])) = state[p].last_hash
               THEN /\ run'[p].path = "unchanged"
                    /\ run'[p].calls = 0
                    /\ run'[p].posts = <<>>
                    /\ \A fld \in ChangeFields :
                          disk'[1][fld] = state[p][fld]
               ELSE /\ run'[p].path = "changed"
                    /\ run'[p].calls = 1
                    /\ Len(run'[p].posts)
                          = (IF env[p].NTFY_TOPIC = <<>> THEN 0 ELSE 1)
                    /\ disk'[1].last_hash = Some(sha256(run'[p].content[1]))
                    /\ disk'[1].last_excerpt
                          = FirstLinesTable[run'[p].content[1]]
                    /\ disk'[1].updated_at # None
                    /\ disk'[1].updated_at[1] \in clock..clock']_vars

\* Content with the stored hash was fetched: nothing was sent, the validators
\* changed and last_ok_run moved on while updated_at stayed.
C7_Witness ==
    /\ pc[1] = "done"
    /\ run[1].path = "unchanged"
    /\ run[1].content = Some(<<"a", "\n", "b">>)
    /\ run[1].calls = 0
    /\ disk[1].etag = Some(<<"e">>)
    /\ disk[1].updated_at = Some(1)
    /\ disk[1].last_ok_run = Some(2)

\* Number of lines of a joined block that is not empty.
LineCount(block) == Len(SelectSeq(block, LAMBDA c : c = "\n")) + 1

\* C8: the diff block placed in the notification has at most 60 lines, and
\* when the line diff is empty (the hash differs but the old and new line
\* sequences are equal) the block is the placeholder, not an empty string.
C8_DiffBlockBounded ==
    [][\A p \in Procs :
         EndsRun(p) /\ run'[p].pretty_diff # None
         => LET block == run'[p].pretty_diff[1]
            IN  /\ block # <<>>
                /\ LineCount(block) <= DiffMaxLines
                /\ block # Placeholder
                   => LinesTable[state[p].last_excerpt]
                         # LinesTable[run'[p].content[1]]
                /\ block = Placeholder
                   => LinesTable[state[p].last_excerpt]
                         = LinesTable[run'[p].content[1]]]_vars

\* The long page arrived over a stored "b": the diff was cut to 60 lines.
C8_Witness ==
    /\ pc[1] = "done"
    /\ run[1].content = Some(LongText)
    /\ run[1].pretty_diff # None
    /\ LineCount(run[1].pretty_diff[1]) = DiffMaxLines
    /\ run[1].posts # <<>>

\* The first run fetched the empty text: the block is the placeholder.
C8_WitnessPlaceholder ==
    /\ pc[1] = "done"
    /\ run[1].content = Some(<<>>)
    /\ run[1].pretty_diff = Some(Placeholder)

\* C9: if TARGET_URL is missing (unset or empty) the run fails before any
\* effect: state.json is neither read nor written, no request is made to the
\* target and no notification is sent.
C9_NoTargetNoEffect ==
    [][\A p \in Procs :
         /\ <<pc[p], env[p], state[p], run[p]>>
               # <<pc'[p], env'[p], state'[p], run'[p]>>
         /\ env'[p].TARGET_URL \in {None, Some(<<>>)}
         => /\ pc'[p] = "failed"
            /\ disk' = disk
            /\ run'[p].reads = 0
            /\ run'[p].writes = 0
            /\ run'[p].gets = <<>>
            /\ run'[p].calls = 0
            /\ run'[p].posts = <<>>]_vars

\* A run with an empty TARGET_URL has failed beside an existing state.json.
C9_Witness ==
    /\ pc[1] = "failed"
    /\ env[1].TARGET_URL = Some(<<>>)
    /\ run[1].path = "config_error"
    /\ disk # None
    /\ disk[1].last_hash # None

\* An invocation of p is under way or over.
Invoked(p) == pc[p] \in {"loaded", "done", "failed"}

\* Writes of p: none before its end, one after exit 0, none after a failure.
WritesAtMostOnce(p) ==
    /\ pc[p] = "loaded" => run[p].writes = 0
    /\ pc[p] = "done" => run[p].writes = 1
    /\ pc[p] = "failed" => run[p].writes = 0

\* The read of p is the first step of its invocation and takes what is on
\* disk then.
ReadsAtStart(p) ==
    /\ pc[p] # "loaded" /\ run'[p] # run[p] /\ run'[p].reads = 1
       => /\ pc'[p] = "loaded"
          /\ state'[p] = load_state(disk)
    /\ pc[p] = "loaded" => run'[p].reads = run[p].reads

\* The write of p is the last step of its invocation; what it leaves on disk
\* is the snapshot p read with p's own updates, whatever was on disk.
WritesAtEnd(p) ==
    /\ disk' # disk => \E q \in Procs : EndsRun(q) /\ pc'[q] = "done"
    /\ EndsRun(p) /\ pc'[p] = "done"
       => /\ disk' = Some(state'[p])
          /\ disk'[1].last_ok_run = Some(clock')
          /\ \A fld \in ValidatorFields :
                disk'[1][fld] = (IF run'[p].path = "not_modified"
                                 THEN state[p][fld] ELSE run'[p][fld])
          /\ IF run'[p].path = "changed"
             THEN /\ disk'[1].last_hash = Some(sha256(run'[p].content[1]))
                  /\ disk'[1].last_excerpt
                        = FirstLinesTable[run'[p].content[1]]
                  /\ disk'[1].updated_at # None
             ELSE \A fld \in ChangeFields : disk'[1][fld] = state[p][fld]
    /\ EndsRun(p) /\ pc'[p] = "failed" => disk' = disk

\* C10 as amended: each invocation that passes the TARGET_URL check reads
\* state.json exactly once, at its start (one that fails the check reads
\* nothing), and every invocation writes it at most once, as its last step
\* (once on exit 0, never on a failure); when two invocations overlap, what
\* is on disk after a write is the writer's own snapshot with its own
\* updates, so the other's updates are lost.
C10_LastWriterWins ==
    /\ [](\A p \in Procs :
            /\ Invoked(p)
               => run[p].reads = (IF Truthy(env[p].TARGET_URL) THEN 1 ELSE 0)
            /\ WritesAtMostOnce(p))
    /\ [][\A p \in Procs : ReadsAtStart(p) /\ WritesAtEnd(p)]_vars

\* C10 as stated: each invocation reads state.json exactly once, at its
\* start, and writes it at most once, as its last step; the last writer wins.
C10_EveryInvocationReadsOnce ==
    /\ [](\A p \in Procs :
            /\ Invoked(p) => run[p].reads = 1
            /\ WritesAtMostOnce(p))
    /\ [][\A p \in Procs : ReadsAtStart(p) /\ WritesAtEnd(p)]_vars

\* Two overlapping invocations found the same change from the same snapshot
\* and both posted it; process 2 wrote last, the etag process 1 saved is lost.
C10_Witness ==
    /\ pc[1] = "done" /\ pc[2] = "done"
    /\ run[1].path = "changed" /\ run[2].path = "changed"
    /\ run[1].content = run[2].content
    /\ run[1].posts # <<>> /\ run[2].posts # <<>>
    /\ state[1].updated_at = Some(1)
    /\ state[2].updated_at = Some(2)
    /\ state[1].etag = Some(<<"e">>)
    /\ disk = Some(state[2])
    /\ disk[1].etag = None

\* Process 1 recorded a change and exited, then process 2, which had read
\* before, saved its 304 run: the change of process 1 is gone from disk.
C10_WitnessLostChange ==
    /\ pc[1] = "done" /\ pc[2] = "done"
    /\ run[1].path = "changed"
    /\ run[2].path = "not_modified"
    /\ disk[1].last_hash = None

\* C11: the validators fetch_content returns, and a successful run saves,
\* are on 304 the input etag and last_modified, and on content, for each of
\* the two alone, the response header when the response carries it and the
\* input value otherwise; so the saved etag (last_modified) is the ETag
\* (Last-Modified) of the most recent content response that carried one, and
\* absent when none did.
C11_ValidatorsFollowHeaders ==
    /\ [][\A p \in Procs :
            EndsRun(p) /\ pc'[p] = "done"
            => LET r == run'[p]
                   expect(header, input) ==
                       IF r.status = 304 THEN input
                       ELSE IF header # None THEN header ELSE input
               IN  /\ r.etag = expect(r.resp_etag, state[p].etag)
                   /\ r.last_modified
                         = expect(r.resp_last_modified, state[p].last_modified)
                   /\ disk'[1].etag = r.etag
                   /\ disk'[1].last_modified = r.last_modified]_vars
    /\ [](disk # None => /\ disk[1].etag = hist.etag
                         /\ disk[1].last_modified = hist.last_modified)

\* A content response without ETag and with Last-Modified came after an
\* ETag had been saved: the ETag stays and Last-Modified is the new one.
C11_Witness ==
    /\ pc[1] = "done"
    /\ run[1].content # None
    /\ run[1].resp_etag = None
    /\ run[1].resp_last_modified = Some(<<"m">>)
    /\ state[1].last_ok_run = Some(2)
    /\ disk[1].etag = Some(<<"e">>)
    /\ disk[1].last_modified = Some(<<"m">>)
    /\ disk[1].updated_at = Some(1)

\* In text, position i holds a whitespace character of a run of whitespace
\* that goes on to a line break.
BeforeLineBreak(text, i) ==
    /\ IsWs(text[i])
    /\ \E k \in (i + 1)..Len(text) :
          /\ text[k] = "\n"
          /\ \A m \in (i + 1)..(k - 1) : IsWs(text[m])

\* In text, position i lies in the leading or in the trailing whitespace.
LeadingOrTrailing(text, i) ==
    /\ IsWs(text[i])
    /\ \/ \A m \in 1..i : IsWs(text[m])
       \/ \A m \in i..Len(text) : IsWs(text[m])

\* C12: two texts that differ only by whitespace before a line break or by
\* leading or trailing whitespace (here: by one such character, which by
\* transitivity gives any number) have the same normalized text and the same
\* fingerprint, and the second, fetched when the first is recorded, is no
\* change.
C12_WhitespaceIsInvisible ==
    pure.fn = "normalize"
    /\ (BeforeLineBreak(pure.b, pure.at) \/ LeadingOrTrailing(pure.b, pure.at))
    => /\ pure.na = pure.nb
       /\ sha256(pure.na) = sha256(pure.nb)
       /\ ~pure.changed

\* "a\nb" and "a \nb" were normalized: both give "a\nb".
C12_Witness ==
    /\ pure.fn = "normalize"
    /\ pure.a = <<"a", "\n", "b">>
    /\ pure.b = <<"a", " ", "\n", "b">>
    /\ BeforeLineBreak(pure.b, pure.at)
    /\ pure.nb = <<"a", "\n", "b">>
    /\ ~pure.changed

\* The template from position i on with every placeholder that occurs in it
\* replaced by its value, the rest as it is.
RECURSIVE SubstituteFrom(_, _, _, _, _)
SubstituteFrom(template, i, url, time, diff_block) ==
    IF i > Len(template) THEN <<>>
    ELSE IF OccursAt(template, i, UrlMark)
    THEN url \o SubstituteFrom(template, i + 5, url, time, diff_block)
    ELSE IF OccursAt(template, i, TimeMark)
    THEN time \o SubstituteFrom(template, i + 6, url, time, diff_block)
    ELSE IF OccursAt(template, i, DiffMark)
    THEN diff_block \o SubstituteFrom(template, i + 6, url, time, diff_block)
    ELSE <<template[i]>>
         \o SubstituteFrom(template, i + 1, url, time, diff_block)

\* C13: under a template, build_message returns the template with every
\* {URL}, {TIME} and {DIFF} that occurs in the template replaced by the URL,
\* the formatted time and the diff block, and the rest of the text unchanged,
\* for every URL, time and diff block.
C13_TemplateSubstituted ==
    pure.fn = "build_message"
    => pure.out = SubstituteFrom(pure.template, 1, pure.url,
                                 FormatTime(pure.now), pure.diff_block)

\* The template of the configuration with plain values: the message is as
\* the claim's example has it.
C13_PlainValues ==
    /\ pure.fn = "build_message"
    /\ pure.template = Template
    /\ pure.url = <<"u">>
    /\ pure.diff_block = <<"d">>
    /\ pure.now = 1
    /\ pure.out = <<"u", " ", "1", ":", "d">>

\* C14: an IGNORE_REGEX that is not a valid pattern never fails the run: the
\* removal is skipped, the rest of the normalization is applied, and what
\* fetch_content returns (the text, hence its hash, the decision and the
\* record saved) is what it returns with no pattern set.
C14_InvalidPatternIsSkipped ==
    pure.fn = "fetch_content" /\ pure.regex \in InvalidRegexes
    => /\ pure.with = pure.without
       /\ ~pure.resp.error /\ pure.resp.status = 200
          => /\ ~pure.with.raised
             /\ pure.with.content = Some(Normalize(pure.resp.body))

\* The pattern "(" met the page "a \nb": the text is "a\nb", as without
\* pattern.
C14_PatternSkipped ==
    /\ pure.fn = "fetch_content"
    /\ pure.regex = <<"(">>
    /\ pure.resp.body = <<"a", " ", "\n", "b">>
    /\ ~pure.with.raised
    /\ pure.with.content = Some(<<"a", "\n", "b">>)
    /\ pure.with = pure.without

\* The one GET of the run that ends in this step, and the record its
\* invocation read at its start.
RequestOf(p) == run'[p].gets[1]

\* In sequential runs the record read is the one the most recent successful
\* run saved (the default when there is none); a failed run saves nothing.
ReadsLastSaved(p) ==
    /\ Len(run'[p].gets) = 1
    /\ state[p] = (IF hist.saved # None THEN hist.saved[1] ELSE DefaultState)
    /\ pc'[p] = "failed" => hist'.saved = hist.saved /\ disk' = disk

\* C15 as amended: the GET of a run carries If-None-Match exactly when the
\* etag of the record read at its start is a non-empty string, with that
\* etag, and If-Modified-Since exactly when its last_modified is a non-empty
\* string, with that value; in sequential runs they are the validators the
\* most recent successful run saved, whatever failed runs came in between.
C15_ConditionalHeaders ==
    [][\A p \in Procs :
         EndsRun(p)
         => /\ ReadsLastSaved(p)
            /\ \A fld \in ValidatorFields :
                 LET sent == IF fld = "etag" THEN RequestOf(p).if_none_match
                             ELSE RequestOf(p).if_modified_since
                 IN  sent = (IF state[p][fld] \notin {None, Some(<<>>)}
                             THEN state[p][fld] ELSE None)]_vars

\* C15 as stated: the GET carries If-None-Match exactly when the record read
\* has an etag, with that etag, and If-Modified-Since exactly when it has a
\* last_modified, with that value.
C15_HeadersWheneverStored ==
    [][\A p \in Procs :
         EndsRun(p)
         => /\ ReadsLastSaved(p)
            /\ RequestOf(p).if_none_match = state[p].etag
            /\ RequestOf(p).if_modified_since = state[p].last_modified]_vars

\* A run that got 304 had sent both validators of the record.
C15_Witness ==
    /\ pc[1] = "done"
    /\ run[1].status = 304
    /\ run[1].gets = <<[if_none_match |-> Some(<<"e">>),
                        if_modified_since |-> Some(<<"m">>)]>>
    /\ disk[1].etag = Some(<<"e">>)
    /\ disk[1].last_modified = Some(<<"m">>)

\* The record held the etag "" (an empty ETag header was saved): the run
\* sent no If-None-Match.
C15_EmptyEtagNotSent ==
    /\ pc[1] \in {"done", "failed"}
    /\ state[1].etag = Some(<<>>)
    /\ run[1].status = 304
    /\ run[1].gets # <<>>
    /\ run[1].gets[1].if_none_match = None

\* C16: in sequential runs from no state.json, the saved last_hash is absent
\* as long as no run has fetched content, and is then sha256 of the
\* normalized text of the most recent run that fetched content; a 304 run
\* and a failed run leave it as it is.
C16_HashOfLatestContent ==
    /\ [](load_state(disk).last_hash
             = (IF hist.content = None THEN None
                ELSE Some(sha256(hist.content[1]))))
    /\ [][\A p \in Procs :
            EndsRun(p) /\ (run'[p].status = 304 \/ pc'[p] = "failed")
            => /\ hist'.content = hist.content
               /\ load_state(disk').last_hash
                     = load_state(disk).last_hash]_vars

\* "b" was recorded at time 1, a later run succeeded at time 2, and the last
\* run failed on a 503: last_hash is still the hash of "b".
C16_Witness ==
    /\ pc[1] = "failed"
    /\ run[1].status = 503
    /\ hist.content = Some(<<"b">>)
    /\ disk # None
    /\ disk[1].last_hash = Some(sha256(<<"b">>))
    /\ disk[1].updated_at = Some(1)
    /\ disk[1].last_ok_run = Some(2)

\* C17: in sequential runs the notifier is called in a run exactly when the
\* run fetched content whose fingerprint differs from that of the previous
\* run that fetched content, or when no earlier run fetched content; it is
\* called once then.  So the same content in the next runs is not notified
\* again, whatever became of the dispatch.
C17_NotifiedOncePerChange ==
    [][\A p \in Procs :
         EndsRun(p)
         => LET fresh == /\ run'[p].content # None
                         /\ \/ hist.content = None
                            \/ sha256(run'[p].content[1])
                                  # sha256(hist.content[1])
            IN  /\ run'[p].calls = (IF fresh THEN 1 ELSE 0)
                /\ ~fresh => run'[p].posts = <<>>
                /\ run'[p].content # None => hist'.content = run'[p].content]_vars

\* The content recorded at time 1 was fetched again at time 2: the notifier
\* was not called.
C17_Witness ==
    /\ pc[1] = "done"
    /\ run[1].content = Some(<<"b">>)
    /\ hist.content = Some(<<"b">>)
    /\ run[1].calls = 0
    /\ run[1].posts = <<>>
    /\ disk[1].updated_at = Some(1)
    /\ disk[1].last_ok_run = Some(2)

\* C18: in sequential runs from no state.json, with a clock that does not
\* go back, every saved record has updated_at absent exactly when last_hash
\* is absent, has last_ok_run (there is a record as soon as a run has
\* succeeded), has updated_at <= last_ok_run when updated_at is there, and
\* last_ok_run does not decrease from one saved record to the next.
C18_TimestampsOrdered ==
    /\ [](/\ hist.saved # None <=> disk # None
          /\ disk # None
             => /\ disk[1].updated_at = None <=> disk[1].last_hash = None
                /\ disk[1].last_ok_run # None
                /\ disk[1].updated_at # None
                   => disk[1].updated_at[1] <= disk[1].last_ok_run[1])
    /\ [][disk # None /\ disk' # disk
          => disk'[1].last_ok_run[1] >= disk[1].last_ok_run[1]]_vars

\* A change recorded at time 1 and a later successful run at time 2.
C18_Witness ==
    /\ disk # None
    /\ disk[1].last_hash # None
    /\ disk[1].updated_at = Some(1)
    /\ disk[1].last_ok_run = Some(2)
    /\ pc[1] = "done"
    /\ run[1].path = "not_modified"

====
